---- MODULE Spec2Model ----
(***************************************************************************)
(* A model of ide/views.py: ExecuteCodeView and ExecuteAllCodeView.        *)
(*                                                                         *)
(* The two views keep their state in two class attributes, kernels and     *)
(* code_sessions, which every request thread of the server process shares. *)
(* A request is handled by one thread; the model follows each thread       *)
(* through its handler, one step per access to shared state (the two       *)
(* dictionaries, an engine's channels, the file system), so that the       *)
(* interleavings of overlapping requests are the runs of the model.        *)
(*                                                                         *)
(* A Python str is a sequence of lexemes (words and the white space        *)
(* between them); None is the one-element sequence <<"<None>">>.           *)
(***************************************************************************)
EXTENDS Integers, Sequences, FiniteSets, TLC

\* ------------------------------------------------------------------ bounds
\* Requests received in a run of Spec, of FairSpec and of SeqSpec.
MaxRequests == 2
MaxFairRequests == 2
MaxSeqRequests == 2
\* Blocks of a batch in SeqSpec.
MaxBlocks == 3
\* The request threads of the server process.
Threads == {"t1", "t2"}

\* ------------------------------------------------------- python values
None == <<"<None>">>
Unbound == <<"<unbound>">>
NL == "\n"
SP == " "

\* bool(v) of a str or None.
Truthy(v) == v # None /\ v # <<>>

RECURSIVE JoinNL(_)
\* "\n".join(strs)
JoinNL(strs) ==
    IF strs = <<>> THEN <<>>
    ELSE IF Len(strs) = 1 THEN strs[1]
    ELSE strs[1] \o <<NL>> \o JoinNL(Tail(strs))

IsSpace(c) == c \in {NL, SP}

\* code.split(): the white-space separated words of a str.  The strings of
\* the model separate any two words by white space, so each word is a lexeme.
Split(s) == SelectSeq(s, LAMBDA c : ~IsSpace(c))

\* ------------------------------------------------------- classification
\* execute_code: the pipeline a language is dispatched to.
PipelineOf(language) ==
    IF language \in {"cpp", "java", "c"} THEN "compiled"
    ELSE IF language \in {"html", "css"} THEN "html"
    ELSE "jupyter"

\* get_kernel_name with one more entry in its table, 'ruby': 'ruby'.
get_kernel_name_with_ruby(language) ==
    CASE language = "python" -> "python3"
      [] language = "javascript" -> "javascript"
      [] language = "r" -> "ir"
      [] language = "java" -> "java"
      [] language = "cpp" -> "xeus-cling"
      [] language = "c" -> "clang"
      [] language = "ruby" -> "ruby"
      [] OTHER -> "<None>"

\* get_kernel_name: kernels.get(language, None)
get_kernel_name(language) ==
    CASE language = "python" -> "python3"
      [] language = "javascript" -> "javascript"
      [] language = "r" -> "ir"
      [] language = "java" -> "java"
      [] language = "cpp" -> "xeus-cling"
      [] language = "c" -> "clang"
      [] OTHER -> "<None>"

\* get_file_extension: extensions.get(language, '')
get_file_extension(language) ==
    CASE language = "python" -> ".py"
      [] language = "javascript" -> ".js"
      [] language = "cpp" -> ".cpp"
      [] language = "java" -> ".java"
      [] language = "r" -> ".R"
      [] language = "c" -> ".c"
      [] OTHER -> ""

\* The kernel specs the host has installed: KernelManager.start_kernel raises
\* NoSuchKernel for any other name.
InstalledKernels == {"python3", "ir"}

\* ------------------------------------------------------- fixed messages
MsgNotProvided == <<"Code or language not provided">>
MsgBlocksNotProvided == <<"Code blocks or language not provided">>
MsgTimedOut == <<"Execution timed out. The code may be too complex or there could be a kernel issue.">>
MsgInvalidReply == <<"Invalid reply from kernel">>
MsgUnknownError == <<"Unknown error occurred during execution">>
MsgExecuted == <<"executed succesfully.">>
MsgUnsupported(language) == <<"Unsupported language: ", language>>
MsgNoSuchKernel(name) == <<"No such kernel named ", name>>

\* ------------------------------------------------------------------ state
VARIABLES
    code_sessions,  \* ExecuteCodeView.code_sessions: language -> list of snippets
    kernels,        \* ExecuteCodeView.kernels: language -> engine (km, kc)
    engines,        \* the engines started so far, in start order
    files,          \* the file system: name -> the file (its content, and the
                    \* name it was created under, which a rename keeps)
    os_name,        \* os.name of the host
    local,          \* per thread: its position and its local variables
    submitted,      \* history: per language, the snippets appended by ordered requests
    nreq,           \* requests received so far
    ncall,          \* execute requests sent to an engine so far
    ntmp            \* temporary files allocated so far

vars == <<code_sessions, kernels, engines, files, os_name, local, submitted,
          nreq, ncall, ntmp>>

EmptyMap == [x \in {} |-> 0]

\* d[k] = v for a dictionary d.
Put(d, k, v) == [x \in DOMAIN d \cup {k} |-> IF x = k THEN v ELSE d[x]]

NoResponse == [status |-> 0, output |-> None, error |-> None, results |-> EmptyMap]

\* No process has run; no reply has been read.
NoProcess == [returncode |-> -1, stdout |-> None, stderr |-> None]
NoReply == [status |-> "<none>", evalue |-> None, call |-> 0]

InitLocal ==
    [pc |-> "idle", view |-> "", language |-> "", code |-> None,
     execute_in_order |-> FALSE, code_blocks |-> <<>>, bi |-> 0,
     overall_results |-> EmptyMap, full_code |-> None, seen |-> <<>>,
     kc |-> 0, started |-> FALSE, call |-> 0, result_msgs |-> <<>>,
     tmp_file_name |-> None, tmp_file_path |-> Unbound, target |-> Unbound,
     pending |-> [result |-> None, error |-> None],
     process |-> NoProcess, reply |-> NoReply, read_msgs |-> <<>>,
     rets |-> <<>>, raised |-> FALSE, response |-> NoResponse]

L(t) == local[t]

SetLocal(t, r) == local' = [local EXCEPT ![t] = r]

Init ==
    /\ code_sessions = EmptyMap
    /\ kernels = EmptyMap
    /\ engines = <<>>
    /\ files = EmptyMap
    /\ os_name \in {"posix", "nt"}
    /\ local = [t \in Threads |-> InitLocal]
    /\ submitted = EmptyMap
    /\ nreq = 0
    /\ ncall = 0
    /\ ntmp = 0

\* ------------------------------------------------------------ dispatch
\* The position at which a pipeline starts (execute_code, lines 50-56 and 260-267).
Begin(language) ==
    CASE PipelineOf(language) = "compiled" -> "execute_compiled_code"
      [] PipelineOf(language) = "html" -> "execute_html_css"
      [] OTHER -> "execute_code_with_jupyter"

\* The locals of a thread entering a pipeline with program `code`.
Enter(r, code) ==
    [r EXCEPT !.pc = Begin(r.language), !.full_code = code, !.kc = 0,
              !.started = FALSE, !.call = 0, !.result_msgs = <<>>,
              !.tmp_file_name = None, !.tmp_file_path = Unbound,
              !.target = Unbound, !.pending = [result |-> None, error |-> None],
              !.process = NoProcess, !.reply = NoReply, !.read_msgs = <<>>]

BlockValid(b) == Truthy(b.code) /\ b.block_id # ""

RECURSIVE NextBlock(_, _)
\* The first block at or after position i that the loop does not skip
\* (lines 237-244), or Len + 1.
NextBlock(blocks, i) ==
    IF i > Len(blocks) THEN i
    ELSE IF BlockValid(blocks[i]) THEN i
    ELSE NextBlock(blocks, i + 1)

Outcome(result, error) ==
    IF Truthy(error) THEN [kind |-> "error", val |-> error]
    ELSE [kind |-> "output", val |-> result]

\* ExecuteAllCodeView.post from block i on: the next block enters its
\* pipeline, or the loop ends and the response is the outcome map.
BatchFrom(r, i) ==
    LET j == NextBlock(r.code_blocks, i) IN
    IF j > Len(r.code_blocks)
    THEN [r EXCEPT !.pc = "done", !.bi = j,
                   !.response = [status |-> 200, output |-> None, error |-> None,
                                 results |-> r.overall_results]]
    ELSE Enter([r EXCEPT !.bi = j], r.code_blocks[j].code)

\* A pipeline returns (result, error) to its caller: ExecuteCodeView.post
\* (lines 42-48) answers; ExecuteAllCodeView.post (lines 250-258) records the
\* block's outcome and goes on.
Return(r, result, error) ==
    LET r1 == [r EXCEPT !.rets = Append(@, [code |-> r.full_code, kc |-> r.kc,
                                            started |-> r.started, call |-> r.call,
                                            process |-> r.process, reply |-> r.reply,
                                            read_msgs |-> r.read_msgs,
                                            result_msgs |-> r.result_msgs,
                                            result |-> result, error |-> error])] IN
    IF r.view = "execute"
    THEN IF Truthy(error)
         THEN [r1 EXCEPT !.pc = "done",
                         !.response = [status |-> 500, output |-> None, error |-> error,
                                       results |-> EmptyMap]]
         ELSE [r1 EXCEPT !.pc = "done",
                         !.response = [status |-> 200, output |-> result, error |-> None,
                                       results |-> EmptyMap]]
    ELSE BatchFrom([r1 EXCEPT !.overall_results =
                        Put(@, r.code_blocks[r.bi].block_id, Outcome(result, error))],
                   r.bi + 1)

\* An exception leaves the pipeline and the view: the framework answers.
Raise(r) ==
    [r EXCEPT !.pc = "done", !.raised = TRUE,
              !.response = [status |-> 500, output |-> None, error |-> None,
                            results |-> EmptyMap]]

\* ------------------------------------------------- ExecuteCodeView.post
\* A thread takes a request when it handles none.  The threads are alike:
\* of two free threads the first takes the request.
Free(t) == L(t).pc \in {"idle", "done"}

Fresh(t) == Free(t) /\ (t = "t2" => ~Free("t1"))

\* post with the test of lines 32 and 39 dropped: every valid request takes
\* the branch of lines 33-38, whatever its execute_in_order.
ExecuteCodeView_post_always_ordered(t, language, code, execute_in_order) ==
    /\ Fresh(t)
    /\ nreq' = nreq + 1
    /\ LET r == [InitLocal EXCEPT !.view = "execute", !.language = language,
                                  !.code = code,
                                  !.execute_in_order = execute_in_order] IN
       IF ~Truthy(code) \/ language = ""
       THEN SetLocal(t, [r EXCEPT !.pc = "done",
                !.response = [status |-> 400, output |-> None,
                              error |-> MsgNotProvided, results |-> EmptyMap]])
       ELSE SetLocal(t, [r EXCEPT !.pc =
                IF language \in DOMAIN code_sessions THEN "append" ELSE "create"])
    /\ UNCHANGED <<code_sessions, kernels, engines, files, os_name, submitted,
                   ncall, ntmp>>

\* post with line 26 reduced to "if not code": a request without language
\* goes on to lines 32-40.
ExecuteCodeView_post_code_only(t, language, code, execute_in_order) ==
    /\ Fresh(t)
    /\ nreq' = nreq + 1
    /\ LET r == [InitLocal EXCEPT !.view = "execute", !.language = language,
                                  !.code = code,
                                  !.execute_in_order = execute_in_order] IN
       IF ~Truthy(code)
       THEN SetLocal(t, [r EXCEPT !.pc = "done",
                !.response = [status |-> 400, output |-> None,
                              error |-> MsgNotProvided, results |-> EmptyMap]])
       ELSE IF execute_in_order
       THEN SetLocal(t, [r EXCEPT !.pc =
                IF language \in DOMAIN code_sessions THEN "append" ELSE "create"])
       ELSE SetLocal(t, Enter(r, code))
    /\ UNCHANGED <<code_sessions, kernels, engines, files, os_name, submitted,
                   ncall, ntmp>>

\* Lines 18-40 up to the first access to code_sessions (line 33).
ExecuteCodeView_post(t, language, code, execute_in_order) ==
    /\ Fresh(t)
    /\ nreq' = nreq + 1
    /\ LET r == [InitLocal EXCEPT !.view = "execute", !.language = language,
                                  !.code = code,
                                  !.execute_in_order = execute_in_order] IN
       IF ~Truthy(code) \/ language = ""
       THEN SetLocal(t, [r EXCEPT !.pc = "done",
                !.response = [status |-> 400, output |-> None,
                              error |-> MsgNotProvided, results |-> EmptyMap]])
       ELSE IF execute_in_order
       THEN SetLocal(t, [r EXCEPT !.pc =
                IF language \in DOMAIN code_sessions THEN "append" ELSE "create"])
       ELSE SetLocal(t, Enter(r, code))
    /\ UNCHANGED <<code_sessions, kernels, engines, files, os_name, submitted,
                   ncall, ntmp>>

\* Line 34: self.code_sessions[language] = []
CreateSession(t) ==
    /\ L(t).pc = "create"
    /\ code_sessions' = Put(code_sessions, L(t).language, <<>>)
    /\ SetLocal(t, [L(t) EXCEPT !.pc = "append"])
    /\ UNCHANGED <<kernels, engines, files, os_name, submitted, nreq, ncall, ntmp>>

\* Line 36: self.code_sessions[language].append(code)
AppendSnippet(t) ==
    /\ L(t).pc = "append"
    /\ LET lang == L(t).language IN
       /\ code_sessions' = [code_sessions EXCEPT ![lang] = Append(@, L(t).code)]
       /\ submitted' = Put(submitted, lang,
              (IF lang \in DOMAIN submitted THEN submitted[lang] ELSE <<>>)
                  \o <<L(t).code>>)
    /\ SetLocal(t, [L(t) EXCEPT !.pc = "join"])
    /\ UNCHANGED <<kernels, engines, files, os_name, nreq, ncall, ntmp>>

\* Lines 37-38: full_code = "\n".join(self.code_sessions[language]), dispatched.
JoinSession(t) ==
    /\ L(t).pc = "join"
    /\ LET lang == L(t).language IN
       SetLocal(t, [Enter(L(t), JoinNL(code_sessions[lang])) EXCEPT
                        !.seen = submitted[lang]])
    /\ UNCHANGED <<code_sessions, kernels, engines, files, os_name, submitted,
                   nreq, ncall, ntmp>>

\* ------------------------------------------------------------ the engine
(* An interactive engine (a Jupyter kernel behind jupyter_client) takes the  *)
(* execute requests sent to it in order.  For each it publishes, on the      *)
(* output channel, status busy, the output of the program and status idle,   *)
(* and it answers on the control channel.  What a program does is read from  *)
(* its statements: "p" prints, "x" raises, "m" makes the engine answer with  *)
(* a reply that carries no status, "d" makes it answer ok and publish        *)
(* nothing, and "w" runs for longer than any timeout of the client, so that  *)
(* its answer may come late or never.  "q" raises an exception without a     *)
(* message (the reply's evalue is ''), "v" is an expression with a value     *)
(* (an execute_result message) and "n" one whose value has no text/plain     *)
(* form (an execute_result message whose payload reads as '').  The engine   *)
(* echoes every program it runs in an execute_input message.                 *)
Statements(code) == SelectSeq(code, LAMBDA c : ~IsSpace(c))

Slow(code) == \E i \in 1..Len(code) : code[i] = "w"

OutText == <<"out">>
ValText == <<"value">>
ErrValue == <<"evalue">>
Traceback == << <<"Traceback">>, <<"Error">> >>

IoMsg(type, state, text, call) ==
    [msg_type |-> type, execution_state |-> state, text |-> text, call |-> call]

RECURSIVE RunStatements(_, _)
\* The output messages and the reply status of a program.
RunStatements(stmts, call) ==
    IF stmts = <<>>
    THEN [out |-> <<>>, status |-> "ok", evalue |-> <<>>, silent |-> FALSE]
    ELSE IF Head(stmts) \in {"x", "q"}
    THEN [out |-> <<IoMsg("error", "", Traceback, call)>>, status |-> "error",
          evalue |-> (IF Head(stmts) = "x" THEN ErrValue ELSE <<>>),
          silent |-> FALSE]
    ELSE IF Head(stmts) = "m"
    THEN [out |-> <<>>, status |-> "", evalue |-> <<>>, silent |-> FALSE]
    ELSE IF Head(stmts) = "d"
    THEN [out |-> <<>>, status |-> "ok", evalue |-> <<>>, silent |-> TRUE]
    ELSE LET rest == RunStatements(Tail(stmts), call)
             own == CASE Head(stmts) = "p" -> <<IoMsg("stream", "", OutText, call)>>
                      [] Head(stmts) = "v" -> <<IoMsg("execute_result", "", ValText, call)>>
                      [] Head(stmts) = "n" -> <<IoMsg("execute_result", "", <<>>, call)>>
                      [] OTHER -> <<>> IN
         [out |-> (IF rest.silent THEN <<>> ELSE own) \o rest.out,
          status |-> rest.status, evalue |-> rest.evalue, silent |-> rest.silent]

\* The engine completes the oldest request it holds.
EngineRun(e) ==
    /\ e \in 1..Len(engines)
    /\ engines[e].pending # <<>>
    /\ LET q == Head(engines[e].pending)
           run == RunStatements(Statements(q.code), q.call) IN
       engines' = [engines EXCEPT ![e] =
           [@ EXCEPT !.pending = Tail(@),
                     !.iopub = IF run.silent THEN @
                               ELSE @ \o <<IoMsg("status", "busy", <<>>, q.call),
                                             IoMsg("execute_input", "", q.code, q.call)>>
                                      \o run.out
                                      \o <<IoMsg("status", "idle", <<>>, q.call)>>,
                     !.shell = Append(@, [status |-> run.status,
                                          evalue |-> run.evalue, call |-> q.call])]]
    /\ UNCHANGED <<code_sessions, kernels, files, os_name, local, submitted,
                   nreq, ncall, ntmp>>

\* A read with timeout=10 gives up (queue.Empty) when nothing is there and
\* nothing is due in time: the engine holds no request, or a long-running one.
NothingDue(e) ==
    IF engines[e].pending = <<>> THEN TRUE
    ELSE Slow(Head(engines[e].pending).code)

\* --------------------------------- ExecuteCodeView.execute_code_with_jupyter
\* Lines 84-89 and 96: the kernel name, and the look-up in self.kernels.
LookupKernel(t) ==
    /\ L(t).pc = "execute_code_with_jupyter"
    /\ LET lang == L(t).language IN
       IF get_kernel_name(lang) = "<None>"
       THEN SetLocal(t, Return(L(t), None, MsgUnsupported(lang)))
       ELSE IF lang \notin DOMAIN kernels
       THEN SetLocal(t, [L(t) EXCEPT !.pc = "start_kernel"])
       ELSE SetLocal(t, [L(t) EXCEPT !.pc = "kc_execute", !.kc = kernels[lang]])
    /\ UNCHANGED <<code_sessions, kernels, engines, files, os_name, submitted,
                   nreq, ncall, ntmp>>

\* Lines 90-94: a new engine is started and stored in self.kernels; a kernel
\* name the host does not know raises, which lines 136-138 turn into an error.
StartKernel(t) ==
    /\ L(t).pc = "start_kernel"
    /\ LET lang == L(t).language
           name == get_kernel_name(lang) IN
       IF name \notin InstalledKernels
       THEN /\ SetLocal(t, Return(L(t), None, MsgNoSuchKernel(name)))
            /\ UNCHANGED <<engines, kernels>>
       ELSE /\ engines' = Append(engines, [language |-> lang, pending |-> <<>>,
                                           shell |-> <<>>, iopub |-> <<>>])
            /\ kernels' = Put(kernels, lang, Len(engines) + 1)
            /\ SetLocal(t, [L(t) EXCEPT !.pc = "kc_execute",
                                        !.kc = Len(engines) + 1, !.started = TRUE])
    /\ UNCHANGED <<code_sessions, files, os_name, submitted, nreq, ncall, ntmp>>

\* Line 98 on one client for all languages: the first engine started.
KcExecute_first_engine(t) ==
    /\ L(t).pc = "kc_execute"
    /\ ncall' = ncall + 1
    /\ engines' = [engines EXCEPT ![1].pending =
                       Append(@, [code |-> L(t).full_code, call |-> ncall + 1])]
    /\ SetLocal(t, [L(t) EXCEPT !.pc = "get_shell_msg", !.call = ncall + 1])
    /\ UNCHANGED <<code_sessions, kernels, files, os_name, submitted, nreq, ntmp>>

\* Line 98: kc.execute(code)
KcExecute(t) ==
    /\ L(t).pc = "kc_execute"
    /\ ncall' = ncall + 1
    /\ engines' = [engines EXCEPT ![L(t).kc].pending =
                       Append(@, [code |-> L(t).full_code, call |-> ncall + 1])]
    /\ SetLocal(t, [L(t) EXCEPT !.pc = "get_shell_msg", !.call = ncall + 1])
    /\ UNCHANGED <<code_sessions, kernels, files, os_name, submitted, nreq, ntmp>>

\* Lines 101-130 without the test of line 105: a reply with any status
\* enters the drain.
GetShellMsg_any_status(t) ==
    /\ L(t).pc = "get_shell_msg"
    /\ engines[L(t).kc].shell # <<>>
    /\ LET reply == Head(engines[L(t).kc].shell) IN
       /\ engines' = [engines EXCEPT ![L(t).kc].shell = Tail(@)]
       /\ LET r == [L(t) EXCEPT !.reply = reply] IN
          IF reply.status = ""
          THEN SetLocal(t, Return(r, None, MsgInvalidReply))
          ELSE SetLocal(t, [r EXCEPT !.pc = "get_iopub_msg", !.result_msgs = <<>>])
    /\ UNCHANGED <<code_sessions, kernels, files, os_name, submitted, nreq, ncall, ntmp>>

\* Lines 101-105 and 124-130: the reply, and the branch on its status.
GetShellMsg(t) ==
    /\ L(t).pc = "get_shell_msg"
    /\ engines[L(t).kc].shell # <<>>
    /\ LET reply == Head(engines[L(t).kc].shell) IN
       /\ engines' = [engines EXCEPT ![L(t).kc].shell = Tail(@)]
       /\ LET r == [L(t) EXCEPT !.reply = reply] IN
          IF reply.status = ""
          THEN SetLocal(t, Return(r, None, MsgInvalidReply))
          ELSE IF reply.status = "ok"
          THEN SetLocal(t, [r EXCEPT !.pc = "get_iopub_msg", !.result_msgs = <<>>])
          ELSE SetLocal(t, Return(r, None, reply.evalue))
    /\ UNCHANGED <<code_sessions, kernels, files, os_name, submitted, nreq, ncall, ntmp>>

\* Lines 132-134 without the except clause for queue.Empty: the clause of
\* lines 136-138 answers str(e), the empty string.
TimedOut_as_generic(r) == Return(r, None, <<>>)

\* The except clause of lines 132-134.
TimedOut(r) == Return(r, None, MsgTimedOut)

\* Line 101 raising queue.Empty, with a handler that restarts the engine:
\* the requests it holds and the messages on its channels are dropped.
ShellTimeout_restart(t) ==
    /\ L(t).pc = "get_shell_msg"
    /\ engines[L(t).kc].shell = <<>>
    /\ NothingDue(L(t).kc)
    /\ engines' = [engines EXCEPT ![L(t).kc] =
                       [@ EXCEPT !.pending = <<>>, !.shell = <<>>, !.iopub = <<>>]]
    /\ SetLocal(t, TimedOut(L(t)))
    /\ UNCHANGED <<code_sessions, kernels, files, os_name, submitted,
                   nreq, ncall, ntmp>>

\* Line 101 raising queue.Empty.
ShellTimeout(t) ==
    /\ L(t).pc = "get_shell_msg"
    /\ engines[L(t).kc].shell = <<>>
    /\ NothingDue(L(t).kc)
    /\ SetLocal(t, TimedOut(L(t)))
    /\ UNCHANGED <<code_sessions, kernels, engines, files, os_name, submitted,
                   nreq, ncall, ntmp>>

\* Line 121 testing the list in place of the joined str:
\* '\n'.join(result_msgs) if result_msgs else "executed succesfully."
Finalize_if_any(result_msgs) ==
    IF result_msgs # <<>> THEN JoinNL(result_msgs) ELSE MsgExecuted

\* Line 121: '\n'.join(result_msgs) or "executed succesfully."
Finalize(result_msgs) ==
    IF Truthy(JoinNL(result_msgs)) THEN JoinNL(result_msgs) ELSE MsgExecuted

\* The drain loop without lines 111-112: an execute_result message adds nothing.
GetIopubMsg_stream_only(t) ==
    /\ L(t).pc = "get_iopub_msg"
    /\ engines[L(t).kc].iopub # <<>>
    /\ LET msg == Head(engines[L(t).kc].iopub)
           r == [L(t) EXCEPT !.read_msgs = Append(@, msg)] IN
       /\ engines' = [engines EXCEPT ![L(t).kc].iopub = Tail(@)]
       /\ IF msg.msg_type = "error"
          THEN SetLocal(t, Return(r, None, JoinNL(msg.text)))
          ELSE IF msg.msg_type = "stream"
          THEN SetLocal(t, [r EXCEPT !.result_msgs = Append(@, msg.text)])
          ELSE IF msg.msg_type = "status" /\ msg.execution_state = "idle"
          THEN SetLocal(t, Return(r, Finalize(r.result_msgs), None))
          ELSE SetLocal(t, r)
    /\ UNCHANGED <<code_sessions, kernels, files, os_name, submitted, nreq, ncall, ntmp>>

\* Lines 106-123: one turn of the drain loop.
GetIopubMsg(t) ==
    /\ L(t).pc = "get_iopub_msg"
    /\ engines[L(t).kc].iopub # <<>>
    /\ LET msg == Head(engines[L(t).kc].iopub)
           r == [L(t) EXCEPT !.read_msgs = Append(@, msg)] IN
       /\ engines' = [engines EXCEPT ![L(t).kc].iopub = Tail(@)]
       /\ IF msg.msg_type = "error"
          THEN SetLocal(t, Return(r, None, JoinNL(msg.text)))
          ELSE IF msg.msg_type \in {"execute_result", "stream"}
          THEN SetLocal(t, [r EXCEPT !.result_msgs = Append(@, msg.text)])
          ELSE IF msg.msg_type = "status" /\ msg.execution_state = "idle"
          THEN SetLocal(t, Return(r, Finalize(r.result_msgs), None))
          ELSE SetLocal(t, r)
    /\ UNCHANGED <<code_sessions, kernels, files, os_name, submitted, nreq, ncall, ntmp>>

\* Line 108 raising queue.Empty.
IopubTimeout(t) ==
    /\ L(t).pc = "get_iopub_msg"
    /\ engines[L(t).kc].iopub = <<>>
    /\ NothingDue(L(t).kc)
    /\ SetLocal(t, TimedOut(L(t)))
    /\ UNCHANGED <<code_sessions, kernels, engines, files, os_name, submitted,
                   nreq, ncall, ntmp>>

\* ------------------------------------------ ExecuteCodeView.execute_compiled_code
(* The toolchain reads the source file that the command names.  What it     *)
(* does is read from the file's content: a source holding "x" does not      *)
(* compile (exit code 1, the diagnostics on stderr); any other source       *)
(* compiles and leaves its binary beside it.  The compiled program prints   *)
(* on stdout and exits with 0, but one holding "q" exits with 1 and prints  *)
(* nothing.  A source holding "e" compiles with warnings on stderr.  A str  *)
(* holding "u" (a lone surrogate) cannot be encoded: code.encode() raises.  *)
Failing(content) == \E i \in 1..Len(content) : content[i] \in {"x", "q"}

Has(content, c) == \E i \in 1..Len(content) : content[i] = c

Encodable(code) == \A i \in 1..Len(code) : code[i] # "u"

StdOut == <<"stdout">>
StdErr == <<"stderr">>
Warnings == <<"warning">>
MsgIndexError == <<"list index out of range">>
MsgEncodeError == <<"surrogates not allowed">>
MsgFileExists == <<"Cannot create a file when that file already exists">>
MsgNoInput == <<"No such file or directory">>

File(content, name) == [content |-> content, created_as |-> name]

\* tempfile.NamedTemporaryFile(suffix=...).name: a name no other call gets.
TmpName(n, suffix) == <<"/tmp/tmp", ToString(n), suffix>>

\* The finally clause is entered with the value the try block returns.
Finally(r, result, error) ==
    [r EXCEPT !.pc = "finally", !.pending = [result |-> result, error |-> error]]

\* Lines 144-150: the name of the source file; for java the third word of the code.
DeriveName(t) ==
    /\ L(t).pc = "execute_compiled_code"
    /\ IF L(t).language = "java"
       THEN IF Len(Split(L(t).full_code)) < 3
            THEN SetLocal(t, Finally(L(t), None, MsgIndexError))
            ELSE SetLocal(t, [L(t) EXCEPT !.pc = "tmp_file",
                     !.tmp_file_name = <<Split(L(t).full_code)[3], ".java">>])
       ELSE SetLocal(t, [L(t) EXCEPT !.pc = "tmp_file", !.tmp_file_name = <<"temp_file">>])
    /\ UNCHANGED <<code_sessions, kernels, engines, files, os_name, submitted,
                   nreq, ncall, ntmp>>

\* Lines 152-157: the temporary file is created and the code written to it.
WriteTmpFile(t) ==
    /\ L(t).pc = "tmp_file"
    /\ ntmp' = ntmp + 1
    /\ LET path == TmpName(ntmp + 1, get_file_extension(L(t).language)) IN
       IF Encodable(L(t).full_code)
       THEN /\ files' = Put(files, path, File(L(t).full_code, path))
            /\ SetLocal(t, [L(t) EXCEPT !.tmp_file_path = path,
                     !.pc = IF L(t).language = "java" THEN "rename" ELSE "run"])
       ELSE /\ files' = Put(files, path, File(<<>>, path))
            /\ SetLocal(t, Finally([L(t) EXCEPT !.tmp_file_path = path],
                                   None, MsgEncodeError))
    /\ UNCHANGED <<code_sessions, kernels, engines, os_name, submitted, nreq, ncall>>

\* The file system without the file `name`.
Without(fs, name) == [x \in DOMAIN fs \ {name} |-> fs[x]]

\* Lines 159-160: os.rename(tmp_file_path, tmp_file_name).  On Windows it
\* raises FileExistsError when the target exists; elsewhere it replaces it.
RenameTmpFile(t) ==
    /\ L(t).pc = "rename"
    /\ LET src == L(t).tmp_file_path
           dst == L(t).tmp_file_name IN
       IF os_name = "nt" /\ dst \in DOMAIN files
       THEN /\ SetLocal(t, Finally(L(t), None, MsgFileExists))
            /\ UNCHANGED files
       ELSE /\ files' = Put(Without(files, src), dst, files[src])
            /\ SetLocal(t, [L(t) EXCEPT !.pc = "run"])
    /\ UNCHANGED <<code_sessions, kernels, engines, os_name, submitted, nreq, ncall, ntmp>>

\* The file the toolchain leaves beside a source it compiled.
Binary(language, path) ==
    IF language = "java" THEN <<path[1], ".class">> ELSE path \o <<".out">>

\* subprocess.run (line 167) of the command of lines 200-202 on a source:
\* the exit code and what was captured.  `found` tells whether the file the
\* command names exists.
Process(content, found) ==
    IF ~found THEN [returncode |-> 1, stdout |-> <<>>, stderr |-> MsgNoInput]
    ELSE IF Has(content, "x") THEN [returncode |-> 1, stdout |-> <<>>, stderr |-> StdErr]
    ELSE IF Has(content, "q") THEN [returncode |-> 1, stdout |-> <<>>, stderr |-> <<>>]
    ELSE [returncode |-> 0, stdout |-> StdOut,
          stderr |-> IF Has(content, "e") THEN Warnings ELSE <<>>]

\* Lines 169-174 reading stderr in place of the exit code: a process that
\* wrote on stderr failed.
ProcessOutcome_by_stderr(process) ==
    IF Truthy(process.stderr)
    THEN [result |-> None, error |-> process.stderr]
    ELSE [result |-> process.stdout, error |-> None]

\* Lines 169-174: what the pipeline returns for a completed process.
ProcessOutcome(process) ==
    IF process.returncode # 0
    THEN [result |-> None, error |-> process.stderr]
    ELSE [result |-> process.stdout, error |-> None]

\* Lines 162-174: the command is run to completion; its exit code decides.
RunCommand(t) ==
    /\ L(t).pc = "run"
    /\ LET path == IF L(t).language = "java" THEN L(t).tmp_file_name
                   ELSE L(t).tmp_file_path
           found == path \in DOMAIN files
           content == IF found THEN files[path].content ELSE <<>>
           process == Process(content, found)
           o == ProcessOutcome(process) IN
       /\ files' = IF found /\ ~Has(content, "x")
                   THEN Put(files, Binary(L(t).language, path),
                            File(<<"binary">>, Binary(L(t).language, path)))
                   ELSE files
       /\ SetLocal(t, Finally([L(t) EXCEPT !.process = process], o.result, o.error))
    /\ UNCHANGED <<code_sessions, kernels, engines, os_name, submitted, nreq, ncall, ntmp>>

\* Lines 180 and 182: which file the finally clause removes.  tmp_file_path
\* is not bound when the try block failed before line 155.
FinallyCheck(t) ==
    /\ L(t).pc = "finally"
    /\ IF Truthy(L(t).tmp_file_name) /\ L(t).tmp_file_name \in DOMAIN files
       THEN SetLocal(t, [L(t) EXCEPT !.pc = "remove", !.target = L(t).tmp_file_name])
       ELSE IF L(t).tmp_file_path = Unbound
       THEN SetLocal(t, Raise(L(t)))
       ELSE IF L(t).tmp_file_path \in DOMAIN files
       THEN SetLocal(t, [L(t) EXCEPT !.pc = "remove", !.target = L(t).tmp_file_path])
       ELSE SetLocal(t, Return(L(t), L(t).pending.result, L(t).pending.error))
    /\ UNCHANGED <<code_sessions, kernels, engines, files, os_name, submitted,
                   nreq, ncall, ntmp>>

\* Lines 181 and 183: os.remove, which raises when the file is gone by now.
FinallyRemove(t) ==
    /\ L(t).pc = "remove"
    /\ IF L(t).target \in DOMAIN files
       THEN /\ files' = Without(files, L(t).target)
            /\ SetLocal(t, Return(L(t), L(t).pending.result, L(t).pending.error))
       ELSE /\ SetLocal(t, Raise(L(t)))
            /\ UNCHANGED files
    /\ UNCHANGED <<code_sessions, kernels, engines, os_name, submitted, nreq, ncall, ntmp>>

\* ------------------------------------------------ ExecuteCodeView.execute_html_css
MsgHtml(path) == <<"HTML/CSS executed successfully. View it at: file://">> \o path

\* Lines 58-78: the document is written and opened; the file is kept.
ExecuteHtmlCss(t) ==
    /\ L(t).pc = "execute_html_css"
    /\ ntmp' = ntmp + 1
    /\ LET path == TmpName(ntmp + 1, ".html") IN
       IF Encodable(L(t).full_code)
       THEN /\ files' = Put(files, path, File(L(t).full_code, path))
            /\ SetLocal(t, Return(L(t), MsgHtml(path), None))
       ELSE /\ files' = Put(files, path, File(<<>>, path))
            /\ SetLocal(t, Return(L(t), None, MsgEncodeError))
    /\ UNCHANGED <<code_sessions, kernels, engines, os_name, submitted, nreq, ncall>>

\* ---------------------------------------------------- ExecuteAllCodeView.post
\* Lines 221-247 up to the first block's pipeline.
ExecuteAllCodeView_post(t, language, code_blocks) ==
    /\ Fresh(t)
    /\ nreq' = nreq + 1
    /\ LET r == [InitLocal EXCEPT !.view = "execute_all", !.language = language,
                                  !.code_blocks = code_blocks] IN
       IF code_blocks = <<>> \/ language = ""
       THEN SetLocal(t, [r EXCEPT !.pc = "done",
                !.response = [status |-> 400, output |-> None,
                              error |-> MsgBlocksNotProvided, results |-> EmptyMap]])
       ELSE SetLocal(t, BatchFrom(r, 1))
    /\ UNCHANGED <<code_sessions, kernels, engines, files, os_name, submitted,
                   ncall, ntmp>>

\* ------------------------------------------------------------------ inputs
CodeP == <<"p">>
CodeX == <<"x">>
CodeW == <<"w">>
CodeM == <<"m">>
CodeD == <<"d">>
CodeU == <<"u">>
CodeQ == <<"q">>
CodeE == <<"e">>
CodeN == <<"n">>
CodePV == <<"p", NL, "v">>
CodeNN == <<"n", NL, "n">>
JavaMain == <<"public", SP, "class", SP, "Main">>
JavaShort == <<"class", SP, "Main">>

Block(id, code) == [block_id |-> id, code |-> code]
BlockId(i) == <<"b1", "b2", "b3", "b4", "b5">>[i]

\* The batches of n blocks for an engine: block i carries the id BlockId(i)
\* and prints or raises; the first block may also lack its id or its code.
Batches(n) ==
    {b \in [1..n -> [block_id : {BlockId(i) : i \in 1..n} \cup {""},
                     code : {CodeP, CodeX, None}]] :
        \A i \in 1..n : /\ b[i].block_id \in {BlockId(i), ""}
                        /\ (b[i].block_id = "" => i = 1 /\ b[i].code = CodeP)
                        /\ (b[i].code = None => i = 1)}

\* ----------------------------------------------------------- specifications
LedgerStep(t) == CreateSession(t) \/ AppendSnippet(t) \/ JoinSession(t)

JupyterStep(t) ==
    \/ LookupKernel(t)
    \/ StartKernel(t)
    \/ KcExecute(t)
    \/ GetShellMsg(t)
    \/ ShellTimeout(t)
    \/ GetIopubMsg(t)
    \/ IopubTimeout(t)

CompiledStep(t) ==
    \/ DeriveName(t)
    \/ WriteTmpFile(t)
    \/ RenameTmpFile(t)
    \/ RunCommand(t)
    \/ FinallyCheck(t)
    \/ FinallyRemove(t)

\* Spec: overlapping requests of every kind.
ExecuteInputs ==
    ({"python"} \X {CodeP, CodeX} \X BOOLEAN)
    \cup ({"python"} \X {CodeW, CodeM, CodeD, CodeQ, CodeN, CodePV, CodeNN} \X {FALSE})
    \cup ({"javascript", "ruby", "go", "html", "c"} \X {CodeP} \X {FALSE})
    \cup ({"r", "ruby"} \X {CodeP} \X BOOLEAN)
    \cup ({"c"} \X {CodeX, CodeU, CodeQ, CodeE} \X {FALSE})
    \cup ({"java"} \X {JavaMain, JavaShort} \X {FALSE})
    \cup ({"python", ""} \X {CodeP, <<>>, None} \X {TRUE})

\* A batch whose second block raises.
DrainBatch == <<Block("b1", CodePV), Block("b2", CodeX), Block("b3", CodeP)>>

BatchInputs ==
    ({"python"} \X (Batches(1) \cup {<<>>})) \cup ({""} \X Batches(1))

Next ==
    \/ \E t \in Threads :
          \/ /\ nreq < MaxRequests
             /\ \E q \in ExecuteInputs : ExecuteCodeView_post(t, q[1], q[2], q[3])
          \/ /\ nreq < MaxRequests
             /\ \E q \in BatchInputs : ExecuteAllCodeView_post(t, q[1], q[2])
          \/ LedgerStep(t)
          \/ JupyterStep(t)
          \/ CompiledStep(t)
          \/ ExecuteHtmlCss(t)
    \/ \E e \in 1..Len(engines) : EngineRun(e)

Spec == Init /\ [][Next]_vars

\* FairSpec: overlapping requests to one interactive engine, every thread
\* going on when it can and the engine completing every program but a
\* long-running one.
FairInputs == {"python"} \X {CodeP, CodeX, CodeW, CodeD} \X {FALSE}

EngineRunFast(e) ==
    /\ e \in 1..Len(engines)
    /\ engines[e].pending # <<>>
    /\ ~Slow(Head(engines[e].pending).code)
    /\ EngineRun(e)

FairNext ==
    \/ \E t \in Threads :
          \/ /\ nreq < MaxFairRequests
             /\ \E q \in FairInputs : ExecuteCodeView_post(t, q[1], q[2], q[3])
          \/ JupyterStep(t)
    \/ \E e \in 1..Len(engines) : EngineRun(e)

\* The engines do not depend on the host's os.name.
PosixInit == Init /\ os_name = "posix"

FairSpec ==
    /\ PosixInit
    /\ [][FairNext]_vars
    /\ \A t \in Threads : WF_vars(JupyterStep(t))
    /\ \A e \in 1..MaxFairRequests : WF_vars(EngineRunFast(e))

\* SeqSpec: requests to the interactive engines that do not overlap: a
\* request is received when no other is being handled.
SeqExecuteInputs ==
    ({"python"} \X {CodeP, CodeX, CodeW, CodeM, CodeD, CodeQ, CodeN, CodePV, CodeNN}
         \X {FALSE})
    \cup ({"python"} \X {CodeP, CodeX} \X {TRUE})
    \cup ({"javascript", "ruby"} \X {CodeP} \X {FALSE})

SeqNext ==
    \/ \E t \in Threads :
          \/ /\ nreq < MaxSeqRequests
             /\ \A u \in Threads : Free(u)
             /\ \E q \in SeqExecuteInputs : ExecuteCodeView_post(t, q[1], q[2], q[3])
          \/ /\ nreq < MaxSeqRequests
             /\ \A u \in Threads : Free(u)
             /\ \E b \in Batches(MaxBlocks) \cup {DrainBatch} :
                    ExecuteAllCodeView_post(t, "python", b)
          \/ LedgerStep(t)
          \/ JupyterStep(t)
    \/ \E e \in 1..Len(engines) : EngineRun(e)

SeqSpec == PosixInit /\ [][SeqNext]_vars

\* ------------------------------------------------------------------ claims
\* The control channel of engine e, empty for an engine that was not started.
Shell(e) == IF e \in 1..Len(engines) THEN engines[e].shell ELSE <<>>
InProtocol(t) == L(t).pc \in {"get_shell_msg", "get_iopub_msg"}
Ordered(r) == r.view = "execute" /\ r.execute_in_order
Invalid(r) == r.view = "execute" /\ (~Truthy(r.code) \/ r.language = "")
Last(s) == s[Len(s)]

\* C1: the program an ordered request hands to its pipeline is the newline
\* join of all the snippets that ordered requests for its language have
\* appended so far, in that order, its own snippet included.
C1_OrderedProgram ==
    \A t \in Threads :
        (Ordered(L(t)) /\ L(t).full_code # None) => L(t).full_code = JoinNL(L(t).seen)

\* C2: at most one engine has been started per language.
C2_OneEnginePerLanguage ==
    \A e1, e2 \in 1..Len(engines) :
        engines[e1].language = engines[e2].language => e1 = e2

\* C3: no two calls are between submit and the end of the drain on the same
\* engine at once.
C3_NoInterleaving ==
    \A t, u \in Threads :
        (InProtocol(t) /\ InProtocol(u) /\ L(t).kc = L(u).kc) => t = u

\* C4: a call that waits for its reply while the control channel stays empty
\* ends, and returns (None, the timed-out message).
C4_TimeoutReturns ==
    \A t \in Threads : \A e, c \in 1..MaxFairRequests :
        (L(t).pc = "get_shell_msg" /\ L(t).kc = e /\ L(t).call = c /\ Shell(e) = <<>>)
        ~> (\/ Shell(e) # <<>>
            \/ /\ L(t).rets # <<>>
               /\ Last(L(t).rets).call = c
               /\ Last(L(t).rets).result = None
               /\ Last(L(t).rets).error = MsgTimedOut)

C4_Witness ==
    \E t \in Threads :
        /\ L(t).pc = "done"
        /\ L(t).full_code = CodeW
        /\ L(t).response.status = 500
        /\ L(t).response.error = MsgTimedOut
        /\ Shell(L(t).kc) = <<>>

\* C5: once a call that used an engine has returned a failure, the pool maps
\* the call's language to that engine.
C5_EngineKept ==
    \A t \in Threads : \A i \in 1..Len(L(t).rets) :
        (L(t).rets[i].kc > 0 /\ Truthy(L(t).rets[i].error))
        => /\ L(t).language \in DOMAIN kernels
           /\ kernels[L(t).language] = L(t).rets[i].kc

\* C6: in a batch that is the first request the server handles, every block
\* with code and id has an entry, which is an error exactly when the block's
\* own code raises.
C6_BatchIndependent ==
    \A t \in Threads :
        (L(t).view = "execute_all" /\ L(t).pc = "done" /\ nreq = 1
            /\ L(t).response.status = 200)
        => \A i \in 1..Len(L(t).code_blocks) :
               LET b == L(t).code_blocks[i] IN
               BlockValid(b)
               => /\ b.block_id \in DOMAIN L(t).response.results
                  /\ (L(t).response.results[b.block_id].kind = "error") = Failing(b.code)

\* C7: a step that changes the ledger is a step of an ordered execute request.
C7_LedgerFrame ==
    [][code_sessions' # code_sessions
       => \E t \in Threads : local'[t] # local[t] /\ Ordered(local[t])]_vars

C7_Witness ==
    \E t \in Threads :
        /\ L(t).view = "execute_all"
        /\ L(t).pc = "done"
        /\ L(t).response.status = 200
        /\ L(t).rets # <<>>
        /\ L(t).language \in DOMAIN code_sessions
        /\ code_sessions[L(t).language] # <<>>

\* C8: the step that takes an execute request without code or language
\* answers 400 at once and touches neither the ledger, nor an engine, nor the
\* file system; such a request takes no other step.
C8_NoPipeline ==
    [][\A t \in Threads :
          (local'[t] # local[t] /\ Invalid(local'[t]))
          => /\ local'[t].pc = "done"
             /\ local'[t].response = [status |-> 400, output |-> None,
                                      error |-> MsgNotProvided, results |-> EmptyMap]
             /\ local'[t].rets = <<>>
             /\ local'[t].full_code = None
             /\ UNCHANGED <<code_sessions, kernels, engines, files, submitted,
                            ncall, ntmp>>]_vars

C8_Witness ==
    \E t \in Threads :
        /\ Invalid(L(t))
        /\ L(t).execute_in_order
        /\ L(t).response.status = 400
        /\ kernels # EmptyMap
        /\ code_sessions # EmptyMap

\* C9: when a compiled call has ended, the file it created exists under no name.
C9_NoFileLeft ==
    \A t \in Threads :
        (L(t).pc = "done" /\ L(t).tmp_file_path # Unbound
            /\ PipelineOf(L(t).language) = "compiled")
        => \A f \in DOMAIN files : files[f].created_as # L(t).tmp_file_path

\* C10: no exception leaves a pipeline.
C10_NoEscape == \A t \in Threads : ~L(t).raised

\* C11: when the pipeline of an execute request has returned a failure, (None,
\* error) with any str as error, the empty one included, the response is the
\* server error carrying that error and no output.
C11_FailureIsError ==
    \A t \in Threads :
        (L(t).view = "execute" /\ L(t).pc = "done" /\ L(t).rets # <<>>
            /\ Last(L(t).rets).error # None)
        => /\ L(t).response.status = 500
           /\ L(t).response.error = Last(L(t).rets).error
           /\ L(t).response.output = None

\* C12: what a compiled call returns after its command has run is decided by
\* the exit code: (None, stderr) when it is not 0, (stdout, None) when it is 0.
C12_ExitCodeDecides ==
    \A t \in Threads : \A i \in 1..Len(L(t).rets) :
        LET ret == L(t).rets[i] IN
        ret.process # NoProcess
        => IF ret.process.returncode # 0
           THEN ret.result = None /\ ret.error = ret.process.stderr
           ELSE ret.result = ret.process.stdout /\ ret.error = None

C12_Witness ==
    \E t, u \in Threads :
        /\ L(t).pc = "done" /\ L(t).rets # <<>>
        /\ Last(L(t).rets).process.returncode = 0
        /\ Last(L(t).rets).process.stderr = Warnings
        /\ L(t).response.output = StdOut
        /\ L(u).pc = "done" /\ L(u).rets # <<>>
        /\ Last(L(u).rets).process.returncode = 1
        /\ Last(L(u).rets).error = StdErr

\* The languages that execute_code and get_kernel_name know.
Configured == {"cpp", "java", "c", "html", "css", "python", "javascript", "r"}

\* C13: a request for a language that is not configured never has an engine
\* or a pool entry for that language, and the answer of an execute request
\* for it is the failure that names the language.
C13_Unsupported ==
    \A t \in Threads :
        (L(t).language \notin Configured /\ L(t).language # "")
        => /\ L(t).language \notin DOMAIN kernels
           /\ \A e \in 1..Len(engines) : engines[e].language # L(t).language
           /\ L(t).kc = 0
           /\ (L(t).view = "execute" /\ L(t).pc = "done" /\ Truthy(L(t).code))
              => /\ L(t).response.status = 500
                 /\ L(t).response.error = MsgUnsupported(L(t).language)
                 /\ Len(L(t).rets) = 1
                 /\ L(t).rets[1].result = None
                 /\ L(t).rets[1].error = MsgUnsupported(L(t).language)

C13_Witness ==
    \E t, u \in Threads :
        /\ L(t).language = "go" /\ L(t).pc = "done"
        /\ L(t).response.error = MsgUnsupported("go")
        /\ L(u).language = "ruby" /\ L(u).pc = "done" /\ L(u).execute_in_order
        /\ L(u).response.error = MsgUnsupported("ruby")
        /\ kernels = EmptyMap

\* The messages that end a drain, and the payloads a drain collects.
EndsDrain(msg) ==
    \/ msg.msg_type = "error"
    \/ msg.msg_type = "status" /\ msg.execution_state = "idle"

Payloads(msgs) ==
    LET sel == SelectSeq(msgs, LAMBDA x : x.msg_type \in {"execute_result", "stream"})
    IN [k \in 1..Len(sel) |-> sel[k].text]

\* C14: a drain reads up to the first message that is an error or status
\* idle and no further; what it has collected is the payloads of the
\* execute_result and stream messages it read, in the order read; ended by
\* idle it returns the success built from them, ended by an error it returns
\* the failure with the joined traceback.
C14_Drain ==
    \A t \in Threads :
        /\ L(t).pc = "get_iopub_msg"
           => /\ \A k \in 1..Len(L(t).read_msgs) : ~EndsDrain(L(t).read_msgs[k])
              /\ L(t).result_msgs = Payloads(L(t).read_msgs)
        /\ \A i \in 1..Len(L(t).rets) :
              LET ret == L(t).rets[i]
                  m == ret.read_msgs
                  n == Len(m) IN
              (ret.reply.status = "ok" /\ ret.error # MsgTimedOut)
              => /\ n >= 1
                 /\ EndsDrain(m[n])
                 /\ \A k \in 1..(n - 1) : ~EndsDrain(m[k])
                 /\ IF m[n].msg_type = "error"
                    THEN ret.result = None /\ ret.error = JoinNL(m[n].text)
                    ELSE /\ ret.error = None
                         /\ ret.result_msgs = Payloads(m)
                         /\ ret.result = Finalize(Payloads(m))

C14_Witness ==
    \E t \in Threads :
        /\ L(t).pc = "done" /\ L(t).code_blocks = DrainBatch /\ Len(L(t).rets) = 3
        /\ L(t).rets[1].result = OutText \o <<NL>> \o ValText
        /\ Len(L(t).rets[1].read_msgs) = 5
        /\ L(t).rets[3].error = JoinNL(Traceback)
        /\ Len(L(t).rets[3].read_msgs) = 3
        /\ engines[L(t).rets[3].kc].iopub # <<>>

\* C15: the step that reads a reply from the control channel reads no output
\* message; on status ok the call goes on to the drain; on a reply without
\* status it returns (None, "Invalid reply from kernel"); on any other
\* status it returns (None, the reply's evalue).
C15_ReplyDecides ==
    [][\A t \in Threads :
          (local[t].pc = "get_shell_msg" /\ local'[t].reply # local[t].reply)
          => LET reply == local'[t].reply
                 e == local[t].kc IN
             /\ reply = Head(engines[e].shell)
             /\ engines'[e].iopub = engines[e].iopub
             /\ local'[t].read_msgs = <<>>
             /\ IF reply.status = "ok"
                THEN local'[t].pc = "get_iopub_msg" /\ local'[t].rets = local[t].rets
                ELSE /\ Len(local'[t].rets) = Len(local[t].rets) + 1
                     /\ Last(local'[t].rets).result = None
                     /\ Last(local'[t].rets).error =
                            IF reply.status = "" THEN MsgInvalidReply ELSE reply.evalue]_vars

C15_Witness ==
    \E t, u \in Threads :
        /\ L(t).pc = "done" /\ L(t).reply.status = "error"
        /\ L(t).response.error = ErrValue
        /\ engines[L(t).kc].iopub # <<>>
        /\ L(u).pc = "done" /\ L(u).reply.status = ""
        /\ L(u).response.error = MsgInvalidReply

\* C16: the step by which a call returns the timed-out failure leaves the
\* engines, the requests they hold, their channels and the pool as they are.
C16_TimeoutKeepsEngine ==
    [][\A t \in Threads :
          (/\ Len(local'[t].rets) = Len(local[t].rets) + 1
           /\ Last(local'[t].rets).error = MsgTimedOut)
          => engines' = engines /\ kernels' = kernels]_vars

\* A request timed out; the engine completed it later; the next call for the
\* language read that reply and its output as the answer to its own program.
C16_Witness ==
    \E t \in Threads :
        /\ L(t).pc = "done" /\ L(t).rets # <<>>
        /\ LET ret == Last(L(t).rets) IN
           /\ ret.code = CodeP
           /\ ret.reply.call # 0
           /\ ret.reply.call < ret.call
           /\ ret.result = MsgExecuted
           /\ \A k \in 1..Len(ret.read_msgs) : ret.read_msgs[k].call = ret.reply.call
           /\ \E k \in 1..Len(ret.read_msgs) :
                 /\ ret.read_msgs[k].msg_type = "execute_input"
                 /\ ret.read_msgs[k].text = CodeW

\* C17: a success of the interactive pipeline carries the newline join of
\* the fragments the drain collected when that join is not empty, and
\* "executed succesfully." when it is; it is never the empty str.
C17_SuccessOutput ==
    \A t \in Threads : \A i \in 1..Len(L(t).rets) :
        LET ret == L(t).rets[i] IN
        (ret.kc > 0 /\ ret.result # None)
        => /\ ret.result # <<>>
           /\ ret.result = IF JoinNL(ret.result_msgs) # <<>>
                            THEN JoinNL(ret.result_msgs) ELSE MsgExecuted
           /\ (ret.result_msgs \in {<<>>, << <<>> >>} => ret.result = MsgExecuted)

C17_Witness ==
    \E t, u \in Threads :
        /\ L(t).pc = "done" /\ L(t).rets # <<>>
        /\ Last(L(t).rets).result_msgs = << <<>> >>
        /\ L(t).response.output = MsgExecuted
        /\ L(u).pc = "done" /\ L(u).rets # <<>>
        /\ Last(L(u).rets).result_msgs = <<OutText, ValText>>
        /\ L(u).response.output = OutText \o <<NL>> \o ValText

\* C18: in the first request the server handles, whose calls follow one
\* another, a call that the engine answered in time with status ok or error
\* has read the reply and the output messages of its own request only, and
\* has left none of its output messages on the channel.
C18_OwnMessagesOnly ==
    \A t \in Threads : \A i \in 1..Len(L(t).rets) :
        LET ret == L(t).rets[i] IN
        (/\ nreq = 1
         /\ ret.kc > 0
         /\ ret.reply.status \in {"ok", "error"}
         /\ \A j \in 1..i : L(t).rets[j].error # MsgTimedOut)
        => /\ ret.reply.call = ret.call
           /\ \A k \in 1..Len(ret.read_msgs) : ret.read_msgs[k].call = ret.call
           /\ \A k \in 1..Len(engines[ret.kc].iopub) :
                 engines[ret.kc].iopub[k].call # ret.call

\* C19: every step keeps each language's ledger as a prefix of what it
\* becomes: the ledger only grows, at its end.
C19_LedgerGrows ==
    [][\A lang \in DOMAIN code_sessions :
          /\ lang \in DOMAIN code_sessions'
          /\ Len(code_sessions'[lang]) >= Len(code_sessions[lang])
          /\ SubSeq(code_sessions'[lang], 1, Len(code_sessions[lang]))
                = code_sessions[lang]]_vars

\* d and d2 agree on every key but k.
SameBut(d, d2, k) ==
    /\ DOMAIN d \ {k} = DOMAIN d2 \ {k}
    /\ \A x \in DOMAIN d \ {k} : d2[x] = d[x]

\* C20: a step of a request for a language leaves the ledger entry, the pool
\* entry and the engines of every other language as they are, and starts no
\* engine for another language.
C20_OtherLanguages ==
    [][\A t \in Threads :
          local'[t] # local[t]
          => LET lang == local'[t].language IN
             /\ SameBut(code_sessions, code_sessions', lang)
             /\ SameBut(kernels, kernels', lang)
             /\ Len(engines') >= Len(engines)
             /\ \A e \in 1..Len(engines) :
                   engines[e].language # lang => engines'[e] = engines[e]
             /\ \A e \in (Len(engines) + 1)..Len(engines') :
                   engines'[e].language = lang]_vars

C20_Witness ==
    \E t, u \in Threads :
        /\ L(t).language = "python" /\ L(u).language = "r"
        /\ L(t).pc = "done" /\ L(u).pc = "done"
        /\ L(t).execute_in_order /\ L(u).execute_in_order
        /\ L(t).response.status = 200 /\ L(u).response.status = 200
        /\ DOMAIN kernels = {"python", "r"}
        /\ kernels["python"] # kernels["r"]
        /\ DOMAIN code_sessions = {"python", "r"}

====
